---- MODULE Spec2Model ----
(***************************************************************************)
(* State-machine model of the hybrid property search engine:               *)
(*   backend/MatchEngine.py  PropertyMatchEngine (load_source, run_search) *)
(*   backend/main.py         the /search handler perform_search            *)
(*                                                                         *)
(* Floating point scores are kept in fixed point, scaled by Scale (1.0 is  *)
(* 100), a final score by Scale * Scale.  A DataFrame is a sequence of     *)
(* rows, each carrying its pandas index label idx; a frame also counts the *)
(* leading rows of the file whose fields are all empty (pad), so that a    *)
(* file longer than the head(1000) limit can be written down.              *)
(***************************************************************************)
EXTENDS Integers, Sequences, FiniteSets, TLC

\* ------------------------------------------------------------------ bounds
\* Longest written-out part of a source file (rows after the empty ones).
MaxRows == 2
\* The same, for the files searched by one caller at a time.
MaxSearchRows == 3

\* ------------------------------------------------------- program constants
\* df[...].head(1000)
HeadLimit == 1000
\* CONFIG["WEIGHTS"] = {"hard": 0.5, "semantic": 0.5}, scaled by Scale
W_HARD == 50
W_SEMANTIC == 50
\* SearchRequest.max_price: Optional[int] = 3000
DefaultMaxPrice == 3000
\* SearchRequest.min_bedrooms: Optional[int] = 2
DefaultMinBedrooms == 2
\* SearchRequest.threshold: Optional[float] = 0.70, scaled by Scale
DefaultThreshold == 70
\* results[mask].fillna(0).head(10)
TopN == 10

\* fixed-point unit: 1.0
Scale == 100

\* ------------------------------------------------------------ cell values
\* A float cell of a DataFrame column: a number, NaN, +inf, or (object
\* columns only) a string that is no number.
Num(v) == [kind |-> "num", val |-> v]
NaN == [kind |-> "nan", val |-> 0]
Inf == [kind |-> "inf", val |-> 0]
Str == [kind |-> "str", val |-> 0]

\* Python None, as a query value
None == [kind |-> "none", val |-> 0]

\* self.corpus_embeddings: None, or a tensor of one vector per description
NoEmbeddings == [none |-> TRUE, vectors |-> <<>>]
Tensor(vectors) == [none |-> FALSE, vectors |-> vectors]

\* self.data["Description"].fillna("No description available")
Placeholder == "No description available"

\* ---------------------------------------------------------- source files
\* One row of the CSV file: the text of its price, bedrooms and body fields.
Row(p, b, d) == [price |-> p, bedrooms |-> b, body |-> d]

\* Rows that differ in what ingestion does with them: a price that parses
\* or not, bedrooms that parse or are infinite, a body or none.  (Rows with
\* every field missing are the pad rows of a file.)
RawRows ==
  {Row("1", "2", "sunny"), Row("2", "1", ""), Row("call", "2", "dark"),
   Row("1", "inf", "sunny")}

\* The rows of the files searched by one caller at a time: all of them clean.
SearchRows == {Row("1", "2", "sunny"), Row("2", "1", ""), Row("call", "2", "dark")}

\* The rows of the files the concurrent searches run on.
FewRows == {Row("1", "2", "sunny"), Row("call", "1", "")}

SeqsUpTo(S, n) == UNION {[1..k -> S] : k \in 0..n}

\* A file that cannot be read, or lacks one of the five columns.
Unreadable == [readable |-> FALSE, pad |-> 0, rows |-> <<>>]

\* Readable files: pad rows with every field empty, then the rows written out.
Files(pads, rowSet, longest) ==
  {Unreadable} \cup
  {[readable |-> TRUE, pad |-> p, rows |-> r] :
      p \in pads, r \in SeqsUpTo(rowSet, longest)}

\* ------------------------------------------------------------- DataFrames
EmptyFrame == [pad |-> 0, rows |-> <<>>]

FrameLen(f) == f.pad + Len(f.rows)

\* DataFrame.empty
IsEmpty(f) == FrameLen(f) = 0

Min(a, b) == IF a <= b THEN a ELSE b

\* pd.read_csv's parse of one numeric-looking field
ReadCell(text) ==
  IF text = "" THEN NaN
  ELSE IF text = "inf" THEN Inf
  ELSE IF text = "1" THEN Num(1)
  ELSE IF text = "2" THEN Num(2)
  ELSE Str

\* pd.read_csv(...) and df[["price","bedrooms","bathrooms","cityname","body"]]:
\* row i of the file gets index label i - 1.
ReadCsv(file) ==
  [pad |-> file.pad,
   rows |-> [i \in 1..Len(file.rows) |->
               [idx |-> file.pad + i - 1,
                Price |-> ReadCell(file.rows[i].price),
                Bedrooms |-> ReadCell(file.rows[i].bedrooms),
                Description |-> file.rows[i].body]]]

\* head without the limit
headAll(f, n) == f

\* DataFrame.head(n)
head(f, n) ==
  IF f.pad >= n THEN [pad |-> n, rows |-> <<>>]
  ELSE [pad |-> f.pad, rows |-> SubSeq(f.rows, 1, Min(Len(f.rows), n - f.pad))]

\* pd.to_numeric(column, errors="coerce") on one cell
ToNumeric(c) == IF c.kind = "str" THEN NaN ELSE c

\* lines 57-60: fillna on Description, to_numeric on Price
FillDescription(d) == IF d = "" THEN Placeholder ELSE d

CleanPrice(f) ==
  [f EXCEPT !.rows = [i \in 1..Len(f.rows) |->
     [f.rows[i] EXCEPT !.Description = FillDescription(@),
                       !.Price = ToNumeric(@)]]]

\* .fillna(0) on one cell
FillZero(c) == IF c.kind = "nan" THEN Num(0) ELSE c

\* .astype(int) raises on a non-finite value
AstypeIntRaises(f) ==
  \E i \in 1..Len(f.rows) : FillZero(ToNumeric(f.rows[i].Bedrooms)).kind = "inf"

\* lines 61-65: Bedrooms to integers (the pad rows' empty field becomes 0)
CleanBedrooms(f) ==
  [f EXCEPT !.rows = [i \in 1..Len(f.rows) |->
     [f.rows[i] EXCEPT !.Bedrooms = FillZero(ToNumeric(@))]]]

HasPrice(r) == r.Price.kind # "nan"

\* line 66: dropna(subset=["Price"]); the pad rows have no price
DropNa(f) == [pad |-> 0, rows |-> SelectSeq(f.rows, HasPrice)]

\* ------------------------------------------------------ embedding provider
\* The provider is a fixed function from text to unit vectors.
Embed(text) ==
  IF text = "sunny" THEN <<1, 0>>
  ELSE IF text = "dark" THEN <<-1, 0>>
  ELSE <<0, 1>>

\* line 70: self.data["Description"].tolist()
Descriptions(f) == [i \in 1..Len(f.rows) |-> f.rows[i].Description]

\* model.encode(list of texts): one vector per text, in order
EncodeAll(texts) == [i \in 1..Len(texts) |-> Embed(texts[i])]

\* util.cos_sim of two unit vectors, in fixed point
CosSim(a, b) == Scale * (a[1] * b[1] + a[2] * b[2])

\* ------------------------------------------------------------- searching
\* PriceMatch with the bound exclusive
PriceMatchStrict(price, max_price) ==
  IF max_price.kind = "none" \/ price.kind # "num" THEN 0
  ELSE IF price.val < max_price.val THEN Scale ELSE 0

\* (self.data["Price"] <= max_price): False on NaN, and all False when the
\* bound is None.
PriceMatch(price, max_price) ==
  IF max_price.kind = "none" \/ price.kind # "num" THEN 0
  ELSE IF price.val <= max_price.val THEN Scale ELSE 0

\* (self.data["Bedrooms"] >= min_bedrooms): False on NaN, True on +inf, and
\* all False when the bound is None.
BedMatch(bedrooms, min_bedrooms) ==
  IF min_bedrooms.kind = "none" \/ bedrooms.kind \in {"nan", "str"} THEN 0
  ELSE IF bedrooms.kind = "inf" THEN Scale
  ELSE IF bedrooms.val >= min_bedrooms.val THEN Scale ELSE 0

\* _calculate_hard_scores: (price_match + bed_match) / 2 of one row
HardScore(row, p) ==
  (PriceMatch(row.Price, p.max_price) + BedMatch(row.Bedrooms, p.min_bedrooms)) \div 2

\* _calculate_hard_scores(prefs): a Series over self.data's index labels
calculate_hard_scores(f, p) ==
  [i \in 1..Len(f.rows) |-> [idx |-> f.rows[i].idx, score |-> HardScore(f.rows[i], p)]]

\* SearchEncodeBatch with the descriptions encoded again at every query
SearchEncodeBatchAll(p, f) == <<p.query>> \o Descriptions(f)

\* the texts run_search hands to model.encode (line 94)
SearchEncodeBatch(p, f) == <<p.query>>

\* util.cos_sim(query_emb, self.corpus_embeddings).flatten().tolist()
SemanticScores(q, embs) == [i \in 1..Len(embs) |-> CosSim(q, embs[i])]

\* CopyFrame without the copy: results_df is self.data itself
CopyFrameAlias(f) == [shared |-> TRUE, frame |-> f]

\* self.data.copy(): a new object holding the same rows
CopyFrame(f) == [shared |-> FALSE, frame |-> f]

\* results_df["Semantic_Score"] = semantic_scores: a list goes in by position
AssignSemantic(f, scores) ==
  [f EXCEPT !.rows = [i \in 1..Len(f.rows) |->
     [idx |-> f.rows[i].idx, Price |-> f.rows[i].Price,
      Bedrooms |-> f.rows[i].Bedrooms, Description |-> f.rows[i].Description,
      Semantic_Score |-> scores[i]]]]

\* the value a Series holds at an index label
AtLabel(series, label) ==
  series[CHOOSE j \in 1..Len(series) : series[j].idx = label].score

\* results_df["Hard_Score"] = <Series>: a Series goes in by index label
AssignHard(f, series) ==
  [f EXCEPT !.rows = [i \in 1..Len(f.rows) |->
     [idx |-> f.rows[i].idx, Price |-> f.rows[i].Price,
      Bedrooms |-> f.rows[i].Bedrooms, Description |-> f.rows[i].Description,
      Semantic_Score |-> f.rows[i].Semantic_Score,
      Hard_Score |-> AtLabel(series, f.rows[i].idx)]]]

\* (w_h * Hard_Score) + (w_s * Semantic_Score), scaled by Scale * Scale
FinalScore(hard, semantic, w) == w.hard * hard + w.semantic * semantic

\* results_df["Final_Score"] = ...
AssignFinal(f, w) ==
  [f EXCEPT !.rows = [i \in 1..Len(f.rows) |->
     [idx |-> f.rows[i].idx, Price |-> f.rows[i].Price,
      Bedrooms |-> f.rows[i].Bedrooms, Description |-> f.rows[i].Description,
      Semantic_Score |-> f.rows[i].Semantic_Score,
      Hard_Score |-> f.rows[i].Hard_Score,
      Final_Score |-> FinalScore(f.rows[i].Hard_Score, f.rows[i].Semantic_Score, w)]]]

Descending(rows) ==
  \A i, j \in 1..Len(rows) : i < j => rows[i].Final_Score >= rows[j].Final_Score

\* sort_values(by="Final_Score", ascending=False) with the default
\* kind="quicksort": the order of rows with equal keys is not specified, so
\* every descending arrangement of the rows is a possible outcome.
SortValues(rows) ==
  {out \in {[i \in 1..Len(rows) |-> rows[perm[i]]] : perm \in Permutations(1..Len(rows))} :
     Descending(out)}

\* ------------------------------------------------------------------ state
VARIABLES
  config,             \* self.config
  data,               \* self.data
  corpus_embeddings,  \* self.corpus_embeddings
  load_log,           \* what the last load_source logged
  source,             \* the file the last load_source was given
  pc,                 \* where each run_search call stands
  prefs,              \* its prefs argument
  query_emb,          \* its query_emb
  semantic_scores,    \* its semantic_scores
  results_df,         \* its results_df
  ret,                \* the rows of the DataFrame it returned
  encoded,            \* the batches of text it handed to model.encode
  response            \* what perform_search answered in the step just taken

engine == <<config, data, corpus_embeddings>>
ingest == <<load_log, source>>
locals == <<pc, prefs, query_emb, semantic_scores, results_df, ret, encoded>>
vars == <<config, data, corpus_embeddings, load_log, source, pc, prefs, query_emb,
          semantic_scores, results_df, ret, encoded, response>>

\* callers of run_search that may overlap
Searchers == {"s1", "s2"}

Queries == {"sunny", "dark"}

\* prefs of the single caller
SearchPrefs ==
  [query : Queries, max_price : {Num(1), Num(2), None},
   min_bedrooms : {Num(1), Num(2), None}]

\* prefs of the overlapping searches
FewPrefs == [query : Queries, max_price : {Num(1), None}, min_bedrooms : {Num(2)}]

NoPrefs == [query |-> "", max_price |-> None, min_bedrooms |-> None]
NoVector == <<>>
NoFrame == [shared |-> FALSE, frame |-> EmptyFrame]
NoResponse == [status |-> 0, detail |-> "", total |-> 0, results |-> <<>>]

\* PropertyMatchEngine.__init__ (and every caller idle)
Init ==
  /\ config = [WEIGHTS |-> [hard |-> W_HARD, semantic |-> W_SEMANTIC]]
  /\ data = EmptyFrame
  /\ corpus_embeddings = NoEmbeddings
  /\ load_log = "none"
  /\ source = Unreadable
  /\ pc = [s \in Searchers |-> "idle"]
  /\ prefs = [s \in Searchers |-> NoPrefs]
  /\ query_emb = [s \in Searchers |-> NoVector]
  /\ semantic_scores = [s \in Searchers |-> <<>>]
  /\ results_df = [s \in Searchers |-> NoFrame]
  /\ ret = [s \in Searchers |-> <<>>]
  /\ encoded = [s \in Searchers |-> <<>>]
  /\ response = NoResponse

\* ---------------------------------------------------------------- loading
\* lines 43-60: self.data once the columns are picked and Price is numeric
Selected(file) == CleanPrice(head(ReadCsv(file), HeadLimit))

\* lines 61-66: what the cleaning leaves in self.data, to its end or to the
\* exception astype(int) raises
Cleaned(file) ==
  IF AstypeIntRaises(Selected(file)) THEN Selected(file)
  ELSE DropNa(CleanBedrooms(Selected(file)))

\* Embedded with the descriptions taken before the rows without price go
EmbeddedBeforeDrop(file) == Tensor(EncodeAll(Descriptions(Selected(file))))

\* lines 70-73: the embeddings of the descriptions of the cleaned rows
Embedded(file) == Tensor(EncodeAll(Descriptions(Cleaned(file))))

\* PropertyMatchEngine.load_source(file): the try block runs to its end or
\* to the first exception, which the except clause logs; self is returned
\* either way.  It is called from one thread, with no search under way.
load_source(file, encode_raises) ==
  /\ \A s \in Searchers : pc[s] = "idle"
  /\ source' = file
  /\ IF ~file.readable
     THEN /\ load_log' = "read_failed"
          /\ UNCHANGED <<data, corpus_embeddings>>
     ELSE /\ data' = Cleaned(file)
          /\ IF AstypeIntRaises(Selected(file))
             THEN /\ load_log' = "clean_failed"
                  /\ UNCHANGED corpus_embeddings
             ELSE IF encode_raises
             THEN /\ load_log' = "encode_failed"
                  /\ UNCHANGED corpus_embeddings
             ELSE /\ load_log' = "ok"
                  /\ corpus_embeddings' = Embedded(file)
  /\ response' = NoResponse
  /\ UNCHANGED <<config, locals>>

\* -------------------------------------------------------------- run_search
\* self.data.empty or self.corpus_embeddings is None
NotReady == IsEmpty(data) \/ corpus_embeddings.none

\* lines 89-91: the guard; not ready returns pd.DataFrame()
run_search_begin(s, p) ==
  /\ pc[s] = "idle"
  /\ prefs' = [prefs EXCEPT ![s] = p]
  /\ pc' = [pc EXCEPT ![s] = IF NotReady THEN "returned" ELSE "encode"]
  /\ response' = NoResponse
  /\ UNCHANGED <<engine, ingest, query_emb, semantic_scores, results_df, ret, encoded>>

\* line 94: the query goes to the provider, which answers or raises
encode_query(s, raises) ==
  /\ pc[s] = "encode"
  /\ encoded' = [encoded EXCEPT ![s] = Append(@, SearchEncodeBatch(prefs[s], data))]
  /\ IF raises
     THEN /\ pc' = [pc EXCEPT ![s] = "raised"]
          /\ UNCHANGED query_emb
     ELSE /\ pc' = [pc EXCEPT ![s] = "cos_sim"]
          /\ query_emb' = [query_emb EXCEPT ![s] = Embed(prefs[s].query)]
  /\ response' = NoResponse
  /\ UNCHANGED <<engine, ingest, prefs, semantic_scores, results_df, ret>>

\* lines 98-100
cos_sim(s) ==
  /\ pc[s] = "cos_sim"
  /\ semantic_scores' =
       [semantic_scores EXCEPT ![s] = SemanticScores(query_emb[s], corpus_embeddings.vectors)]
  /\ pc' = [pc EXCEPT ![s] = "combine"]
  /\ response' = NoResponse
  /\ UNCHANGED <<engine, ingest, prefs, query_emb, results_df, ret, encoded>>

\* A write to results_df reaches self.data when both are one object.
Written(df, f) == IF df.shared THEN f ELSE data

\* lines 103-104: the list must be as long as the frame, or pandas raises
combine(s) ==
  /\ pc[s] = "combine"
  /\ LET df == CopyFrame(data)
     IN IF Len(semantic_scores[s]) # FrameLen(df.frame)
        THEN /\ pc' = [pc EXCEPT ![s] = "raised"]
             /\ results_df' = [results_df EXCEPT ![s] = df]
             /\ UNCHANGED data
        ELSE /\ pc' = [pc EXCEPT ![s] = "hard"]
             /\ results_df' = [results_df EXCEPT ![s] =
                  [df EXCEPT !.frame = AssignSemantic(df.frame, semantic_scores[s])]]
             /\ data' = Written(df, AssignSemantic(df.frame, semantic_scores[s]))
  /\ response' = NoResponse
  /\ UNCHANGED <<config, corpus_embeddings, ingest, prefs, query_emb,
                 semantic_scores, ret, encoded>>

\* line 105
hard_scores(s) ==
  /\ pc[s] = "hard"
  /\ LET f == AssignHard(results_df[s].frame, calculate_hard_scores(data, prefs[s]))
     IN /\ results_df' = [results_df EXCEPT ![s].frame = f]
        /\ data' = Written(results_df[s], f)
  /\ pc' = [pc EXCEPT ![s] = "final"]
  /\ response' = NoResponse
  /\ UNCHANGED <<config, corpus_embeddings, ingest, prefs, query_emb,
                 semantic_scores, ret, encoded>>

\* lines 108-114: the final scores, and the sorted frame is returned
final_sort(s) ==
  /\ pc[s] = "final"
  /\ LET f == AssignFinal(results_df[s].frame, config.WEIGHTS)
     IN /\ results_df' = [results_df EXCEPT ![s].frame = f]
        /\ data' = Written(results_df[s], f)
        /\ \E out \in SortValues(f.rows) : ret' = [ret EXCEPT ![s] = out]
  /\ pc' = [pc EXCEPT ![s] = "returned"]
  /\ response' = NoResponse
  /\ UNCHANGED <<config, corpus_embeddings, ingest, prefs, query_emb,
                 semantic_scores, encoded>>

\* the caller has the result or the exception; the call's locals are gone
finish(s) ==
  /\ pc[s] \in {"returned", "raised"}
  /\ pc' = [pc EXCEPT ![s] = "idle"]
  /\ prefs' = [prefs EXCEPT ![s] = NoPrefs]
  /\ query_emb' = [query_emb EXCEPT ![s] = NoVector]
  /\ semantic_scores' = [semantic_scores EXCEPT ![s] = <<>>]
  /\ results_df' = [results_df EXCEPT ![s] = NoFrame]
  /\ ret' = [ret EXCEPT ![s] = <<>>]
  /\ encoded' = [encoded EXCEPT ![s] = <<>>]
  /\ response' = NoResponse
  /\ UNCHANGED <<engine, ingest>>

\* ---------------------------------------------------------- perform_search
\* a field the request leaves out
Omitted == [kind |-> "omitted", val |-> 0]

\* SearchRequest: a field left out takes its default, an explicit null is None
Field(v, default) == IF v.kind = "omitted" THEN Num(default) ELSE v

\* requests to /search
FewRequests ==
  [query : {"sunny"}, max_price : {Omitted, None}, min_bedrooms : {Omitted, None},
   threshold : {Omitted}]

\* run_search's frame before the sort, for a corpus it accepts
Scored(f, embs, p, w) ==
  AssignFinal(
    AssignHard(AssignSemantic(f, SemanticScores(Embed(p.query), embs)),
               calculate_hard_scores(f, p)),
    w)

\* results["Final_Score"] >= request.threshold: all False against None
AboveThreshold(row, threshold) ==
  threshold.kind = "num" /\ row.Final_Score >= threshold.val * Scale

\* .fillna(0) on the rows of the answer
FillRow(row) == [row EXCEPT !.Price = FillZero(@), !.Bedrooms = FillZero(@)]

\* lines 47-57: the mask, the first ten rows, the answer
Answer(sorted, threshold) ==
  LET Hit(row) == AboveThreshold(row, threshold)
      hits == SelectSeq(sorted, Hit)
  IN [status |-> 200, detail |-> "", total |-> Len(hits),
      results |-> [i \in 1..Min(Len(hits), TopN) |-> FillRow(hits[i])]]

\* HTTPException(status_code=500, detail="Data source not loaded.")
NotLoaded ==
  [status |-> 500, detail |-> "Data source not loaded.", total |-> 0, results |-> <<>>]

\* an exception the handler does not catch
ServerError ==
  [status |-> 500, detail |-> "Internal Server Error", total |-> 0, results |-> <<>>]

\* perform_search(request): the handler awaits nothing, so it runs as one
\* step.  run_search's empty DataFrame has no Final_Score column, so the
\* mask raises KeyError; an exception of run_search passes through.
perform_search(request, encode_raises) ==
  LET p == [query |-> request.query,
            max_price |-> Field(request.max_price, DefaultMaxPrice),
            min_bedrooms |-> Field(request.min_bedrooms, DefaultMinBedrooms)]
      threshold == Field(request.threshold, DefaultThreshold)
      fails == \/ corpus_embeddings.none
               \/ encode_raises
               \/ Len(corpus_embeddings.vectors) # FrameLen(data)
  IN /\ IF IsEmpty(data)
        THEN response' = NotLoaded /\ UNCHANGED data
        ELSE IF fails
        THEN response' = ServerError /\ UNCHANGED data
        ELSE LET f == Scored(data, corpus_embeddings.vectors, p, config.WEIGHTS)
             IN /\ \E out \in SortValues(f.rows) : response' = Answer(out, threshold)
                /\ data' = Written(CopyFrame(data), f)
     /\ UNCHANGED <<config, corpus_embeddings, ingest, locals>>

\* --------------------------------------------------------- specifications
FewFiles == Files({0}, FewRows, MaxRows)
SearchFiles == Files({0}, SearchRows, MaxSearchRows)
IngestFiles == Files({0, HeadLimit - 1}, RawRows, MaxRows)

\* The whole program: loads, overlapping run_search calls, the handler.
Next ==
  \/ \E file \in FewFiles, encode_raises \in BOOLEAN : load_source(file, encode_raises)
  \/ \E s \in Searchers, p \in FewPrefs : run_search_begin(s, p)
  \/ \E s \in Searchers, raises \in BOOLEAN : encode_query(s, raises)
  \/ \E s \in Searchers : cos_sim(s)
  \/ \E s \in Searchers : combine(s)
  \/ \E s \in Searchers : hard_scores(s)
  \/ \E s \in Searchers : final_sort(s)
  \/ \E s \in Searchers : finish(s)
  \/ \E request \in FewRequests, encode_raises \in BOOLEAN :
       perform_search(request, encode_raises)

Spec == Init /\ [][Next]_vars

\* Loads and one run_search call at a time, over more files and queries.
NextSearch ==
  \/ \E file \in SearchFiles, encode_raises \in BOOLEAN : load_source(file, encode_raises)
  \/ \E p \in SearchPrefs : run_search_begin("s1", p)
  \/ \E raises \in BOOLEAN : encode_query("s1", raises)
  \/ cos_sim("s1")
  \/ combine("s1")
  \/ hard_scores("s1")
  \/ final_sort("s1")
  \/ finish("s1")

SpecSearch == Init /\ [][NextSearch]_vars

\* Loads alone, over files longer than the head limit.
NextIngest ==
  \E file \in IngestFiles, encode_raises \in BOOLEAN : load_source(file, encode_raises)

SpecIngest == Init /\ [][NextIngest]_vars

\* ------------------------------------------------------------------ claims
\* the scored rows a call holds once line 105 has run
ScoredRows(s) ==
  IF pc[s] = "final" THEN results_df[s].frame.rows
  ELSE IF pc[s] = "returned" THEN ret[s]
  ELSE <<>>

\* C1: a search on an engine that is not ready (empty corpus or no
\* embeddings) ends in a not-ready error: run_search never returns a
\* result, and the handler answers with its not-loaded error.
C1_NotReadyIsAnError ==
  NotReady =>
    /\ \A s \in Searchers : pc[s] # "returned"
    /\ response # NoResponse => response = NotLoaded

\* C2: the corpus holds as many embeddings as records, in every state.
C2_LengthsAgree == FrameLen(data) = Len(corpus_embeddings.vectors)

\* C3: a load_source that failed leaves no records and no embeddings.
C3_FailedLoadLeavesEmpty ==
  load_log \in {"read_failed", "clean_failed", "encode_failed"} =>
    IsEmpty(data) /\ Len(corpus_embeddings.vectors) = 0

\* C4: a returned ranking is descending in Final_Score, and rows with equal
\* Final_Score keep their corpus order.
C4_StableRanking ==
  \A s \in Searchers : pc[s] = "returned" =>
    /\ Descending(ret[s])
    /\ \A i, j \in 1..Len(ret[s]) :
         (i < j /\ ret[s][i].Final_Score = ret[s][j].Final_Score)
           => ret[s][i].idx < ret[s][j].idx

\* a sub-criterion as the claim has it: 1.0 when the bound is None
SatisfiedWhenAbsent(bound, match) == IF bound.kind = "none" THEN Scale ELSE match

\* C5: a bound that is None when it reaches the scorer counts as satisfied:
\* the hard score is the mean of the two sub-criteria with 1.0 for every
\* absent one (1.0 for every record when both are absent).
C5_AbsentBoundIsSatisfied ==
  \A s \in Searchers : \A i \in 1..Len(ScoredRows(s)) :
    LET row == ScoredRows(s)[i]
        p == prefs[s]
    IN 2 * row.Hard_Score =
         SatisfiedWhenAbsent(p.max_price, PriceMatch(row.Price, p.max_price))
         + SatisfiedWhenAbsent(p.min_bedrooms, BedMatch(row.Bedrooms, p.min_bedrooms))

\* C6: with both bounds present, a record's hard score is 1.0 iff its price
\* is at most max_price and its bedrooms at least min_bedrooms, 0.5 iff
\* exactly one holds, 0.0 iff neither does.
C6_HardScoreIsMeanOfTwo ==
  \A s \in Searchers : \A i \in 1..Len(ScoredRows(s)) :
    LET row == ScoredRows(s)[i]
        p == prefs[s]
    IN (/\ p.max_price.kind = "num" /\ p.min_bedrooms.kind = "num"
        /\ row.Price.kind = "num" /\ row.Bedrooms.kind = "num")
       => LET priceOk == row.Price.val <= p.max_price.val
              bedroomsOk == row.Bedrooms.val >= p.min_bedrooms.val
          IN /\ row.Hard_Score \in {0, Scale \div 2, Scale}
             /\ row.Hard_Score = Scale <=> (priceOk /\ bedroomsOk)
             /\ row.Hard_Score = 0 <=> (~priceOk /\ ~bedroomsOk)

\* a search met both boundaries: a record priced exactly max_price that
\* failed on bedrooms alone, and one with exactly min_bedrooms that passed
C6_Witness ==
  \E s \in Searchers :
    /\ pc[s] = "returned"
    /\ prefs[s].max_price.kind = "num" /\ prefs[s].min_bedrooms.kind = "num"
    /\ \E i, j \in 1..Len(ret[s]) :
         /\ ret[s][i].Price = prefs[s].max_price
         /\ ret[s][i].Hard_Score = Scale \div 2
         /\ ret[s][j].Bedrooms = prefs[s].min_bedrooms
         /\ ret[s][j].Hard_Score = Scale

\* C7: a search that gets past the guard hands exactly one batch to the
\* provider, the query text alone, before any score exists; a search turned
\* away as not ready hands it nothing.
C7_OneEncodePerSearch ==
  \A s \in Searchers :
    /\ pc[s] \in {"idle", "encode"} => encoded[s] = <<>>
    /\ pc[s] \in {"cos_sim", "combine", "hard", "final"} =>
         encoded[s] = << <<prefs[s].query>> >> /\ query_emb[s] = Embed(prefs[s].query)
    /\ pc[s] = "returned" =>
         IF Len(ret[s]) = 0 THEN encoded[s] = <<>>
         ELSE encoded[s] = << <<prefs[s].query>> >>
    /\ (Len(semantic_scores[s]) > 0 \/ Len(ScoredRows(s)) > 0) => Len(encoded[s]) = 1

\* one caller has its ranking of two records while the other, turned away
\* or not, has finished too
C7_Witness ==
  /\ pc["s1"] = "returned" /\ Len(ret["s1"]) = 2
  /\ encoded["s1"] = << <<prefs["s1"].query>> >>
  /\ pc["s2"] \in {"hard", "returned"}

\* whether a price field parses as a number
ParsesAsNumber(text) == text \in {"1", "2"}

\* the index labels of the file's rows with a numeric price among its first
\* `limit` rows, in file order
KeptLabels(file, limit) ==
  LET Keep(i) == /\ file.pad + i <= limit
                 /\ ParsesAsNumber(file.rows[i].price)
  IN [k \in 1..Len(SelectSeq([i \in 1..Len(file.rows) |-> i], Keep)) |->
        file.pad + SelectSeq([i \in 1..Len(file.rows) |-> i], Keep)[k] - 1]

Labels(f) == [i \in 1..Len(f.rows) |-> f.rows[i].idx]

\* C8 as stated: after a successful load the corpus is exactly the file's
\* rows with a numeric price, in file order, however long the file.
C8_AllNumericRowsKept ==
  load_log = "ok" =>
    data.pad = 0 /\ Labels(data) = KeptLabels(source, source.pad + Len(source.rows))

\* C8 amended: after a successful load the corpus is exactly those of the
\* file's first 1000 rows that have a numeric price, in file order.
C8_NumericRowsOfHeadKept ==
  load_log = "ok" =>
    /\ data.pad = 0
    /\ Labels(data) = KeptLabels(source, HeadLimit)
    /\ \A i \in 1..Len(data.rows) :
         data.rows[i].Price.kind = "num"

\* a file of more than 1000 rows was loaded, and a row was kept
C8_Witness ==
  /\ load_log = "ok"
  /\ source.pad + Len(source.rows) > HeadLimit
  /\ Len(data.rows) = 1

\* what run_search returns for prefs p when it runs alone on the engine
AloneResults(p) ==
  SortValues(Scored(data, corpus_embeddings.vectors, p, config.WEIGHTS).rows)

\* C9: no step of a search (run_search or the handler) changes the corpus
\* or the configuration, and whatever the interleaving each call returns a
\* result it could return running alone.
C9_SearchReadsOnly ==
  [][/\ (pc' # pc \/ response' # NoResponse)
          => UNCHANGED <<config, data, corpus_embeddings>>
     /\ \A s \in Searchers :
          (pc[s] = "final" /\ pc'[s] = "returned")
            => ret'[s] \in AloneResults(prefs[s])]_vars

\* two overlapping calls with different prefs, one done, one in its scoring
C9_Witness ==
  /\ pc["s1"] = "returned" /\ Len(ret["s1"]) > 0
  /\ pc["s2"] \in {"hard", "final"}
  /\ prefs["s1"] # prefs["s2"]

\* C10: once load_source has succeeded, embedding i is the embedding of
\* record i's description, and every row of a search result carries the
\* similarity of the query to its own description and the hard score of its
\* own price and bedrooms.
C10_EmbeddingMatchesRecord ==
  load_log = "ok" =>
    /\ ~corpus_embeddings.none
    /\ data.pad = 0
    /\ Len(corpus_embeddings.vectors) = Len(data.rows)
    /\ \A i \in 1..Len(data.rows) :
         corpus_embeddings.vectors[i] = Embed(data.rows[i].Description)
    /\ \A s \in Searchers : \A i \in 1..Len(ScoredRows(s)) :
         LET row == ScoredRows(s)[i]
         IN /\ row.Semantic_Score =
                 CosSim(Embed(prefs[s].query), Embed(row.Description))
            /\ row.Hard_Score = HardScore(row, prefs[s])

\* a search returned two records with different descriptions from a corpus
\* whose first file row was dropped, so that no label equals a position
C10_Witness ==
  /\ load_log = "ok"
  /\ Len(source.rows) > Len(data.rows)
  /\ \E s \in Searchers :
       /\ pc[s] = "returned"
       /\ Len(ret[s]) = 2
       /\ \A i \in 1..Len(ret[s]) : ret[s][i].idx > 0
       /\ ret[s][1].Description # ret[s][2].Description
       /\ ret[s][1].Semantic_Score # ret[s][2].Semantic_Score
====
